---------------------------- MODULE Spec2Model ----------------------------
(***************************************************************************)
(* Model of hl's record formatter (src/src/formatting.rs).                 *)
(*                                                                         *)
(* RecordFormatter::format_record appends one rendered log record to a     *)
(* byte buffer: time, level, logger, message, fields, hidden-fields        *)
(* indicator, caller.  Field values are rendered by FieldFormatter, which  *)
(* recurses into objects and arrays, consults the include/exclude filter   *)
(* and keeps the flatten state (FormattingState, KeyPrefix).  Strings are  *)
(* rendered by the quote-selection formatters of module `string`.          *)
(*                                                                         *)
(* Bytes are naturals 0..255, byte strings are sequences of bytes.  The    *)
(* recursion of FieldFormatter::format / format_value is modelled by an    *)
(* explicit stack of frames, one frame per loop over the members of an     *)
(* object, the elements of an array or the fields of the record.  The      *)
(* styling sink is the colourless theme: an element contributes only the   *)
(* bytes its batch appends.                                                *)
(***************************************************************************)
EXTENDS Integers, Sequences, FiniteSets, TLC

VARIABLES
    cfg,      \* the RecordFormatter: settings and the field filter
    rec,      \* the record being formatted
    buf,      \* the output buffer (Vec<u8>)
    fs,       \* FormattingState: key_prefix, flatten, empty
    pc,       \* position in format_record
    stack,    \* frames of the field recursion, innermost last
    els,      \* elements handed to the styling sink, in order
    drops,    \* paths of the fields dropped by the filter so far
    base      \* the content of the buffer when format_record was called

vars == <<cfg, rec, buf, fs, pc, stack, els, drops, base>>

---------------------------------------------------------------------------
(* Byte strings                                                            *)

Last(s) == s[Len(s)]

Front(s) == SubSeq(s, 1, Len(s) - 1)

\* buf[begin..] of the code, with begin the 0-based offset
From(s, begin) == SubSeq(s, begin + 1, Len(s))

\* buf.truncate(n)
Truncate(s, n) == IF n < Len(s) THEN SubSeq(s, 1, n) ELSE s

Contains(s, b) == \E i \in 1..Len(s) : s[i] = b

StartsWith(s, b) == Len(s) > 0 /\ s[1] = b

RECURSIVE Concat(_)
Concat(ss) == IF Len(ss) = 0 THEN <<>> ELSE Head(ss) \o Concat(Tail(ss))

\* u8::is_ascii_whitespace: space, tab, LF, FF, CR
IsAsciiWhitespace(b) == b \in {32, 9, 10, 12, 13}

---------------------------------------------------------------------------
(* Encoded strings (crate encstr): a string is raw (its source is its      *)
(* content) or JSON (its source is a quoted JSON string with escapes).     *)

HexValue(b) ==
    CASE b \in 48..57  -> b - 48
      [] b \in 97..102 -> b - 87
      [] b \in 65..70  -> b - 55
      [] OTHER         -> -1

HexDigit(n) == IF n < 10 THEN 48 + n ELSE 87 + n

\* UTF-8 encoding of a code point of the basic plane
Utf8(cp) ==
    IF cp < 128 THEN <<cp>>
    ELSE IF cp < 2048 THEN <<192 + (cp \div 64), 128 + (cp % 64)>>
    ELSE <<224 + (cp \div 4096), 128 + ((cp \div 64) % 64), 128 + (cp % 64)>>

SimpleEscape(b) ==
    CASE b = 34  -> 34
      [] b = 92  -> 92
      [] b = 47  -> 47
      [] b = 98  -> 8
      [] b = 102 -> 12
      [] b = 110 -> 10
      [] b = 114 -> 13
      [] b = 116 -> 9
      [] OTHER   -> -1

\* Unescapes the inside of a JSON string from position i on; ok is FALSE on a
\* malformed escape sequence.
RECURSIVE DecodeJsonFrom(_, _)
DecodeJsonFrom(s, i) ==
    IF i > Len(s) THEN [ok |-> TRUE, out |-> <<>>]
    ELSE IF s[i] # 92 THEN
        LET r == DecodeJsonFrom(s, i + 1)
        IN  [ok |-> r.ok, out |-> <<s[i]>> \o r.out]
    ELSE IF i + 1 > Len(s) THEN [ok |-> FALSE, out |-> <<>>]
    ELSE IF s[i + 1] = 117 THEN
        IF i + 5 > Len(s) \/ \E j \in 2..5 : HexValue(s[i + j]) < 0
        THEN [ok |-> FALSE, out |-> <<>>]
        ELSE LET cp == 4096 * HexValue(s[i + 2]) + 256 * HexValue(s[i + 3])
                       + 16 * HexValue(s[i + 4]) + HexValue(s[i + 5])
                 r == DecodeJsonFrom(s, i + 6)
             IN  [ok |-> r.ok, out |-> Utf8(cp) \o r.out]
    ELSE IF SimpleEscape(s[i + 1]) < 0 THEN [ok |-> FALSE, out |-> <<>>]
    ELSE LET r == DecodeJsonFrom(s, i + 2)
         IN  [ok |-> r.ok, out |-> <<SimpleEscape(s[i + 1])>> \o r.out]

\* AnyEncodedString::decode: the decoded bytes, or failure
Decode(str) ==
    IF str.enc = "raw" THEN [ok |-> TRUE, out |-> str.s]
    ELSE IF Len(str.s) < 2 \/ str.s[1] # 34 \/ Last(str.s) # 34
         THEN [ok |-> FALSE, out |-> <<>>]
         ELSE DecodeJsonFrom(SubSeq(str.s, 2, Len(str.s) - 1), 1)

\* AnyEncodedString::is_empty: a JSON string is empty when its source is ""
StrIsEmpty(str) ==
    IF str.enc = "raw" THEN Len(str.s) = 0 ELSE Len(str.s) = 2

\* JsonAppender: one decoded byte, escaped as in a JSON string
JsonEscapeByte(b) ==
    CASE b = 34  -> <<92, 34>>
      [] b = 92  -> <<92, 92>>
      [] b = 8   -> <<92, 98>>
      [] b = 12  -> <<92, 102>>
      [] b = 10  -> <<92, 110>>
      [] b = 13  -> <<92, 114>>
      [] b = 9   -> <<92, 116>>
      [] b < 32  -> <<92, 117, 48, 48, HexDigit(b \div 16), HexDigit(b % 16)>>
      [] OTHER   -> <<b>>

JsonEscape(s) == Concat([i \in 1..Len(s) |-> JsonEscapeByte(s[i])])

---------------------------------------------------------------------------
(* Module string: byte classification and the quote-selection formatters   *)

XS == {"Control", "ExtendedSpace"}

\* CHAR_GROUPS[c]: the categories of one byte, as a set of Mask flags
CHAR_GROUPS(c) ==
    CASE c \in {9, 10, 13} -> XS
      [] c < 32            -> {"Control"}
      [] c = 32            -> {"Space"}
      [] c = 34            -> {"DoubleQuote"}
      [] c = 39            -> {"SingleQuote"}
      [] c = 61            -> {"EqualSign"}
      [] c = 92            -> {"Backslash"}
      [] c = 96            -> {"Backtick"}
      [] OTHER             -> {}

\* the union of the categories of the bytes of s
MaskOf(s) == UNION {CHAR_GROUPS(s[i]) : i \in 1..Len(s)}

Intersects(mask, other) == mask \cap other # {}

\* QuoteSelect without the early return for an empty mask
QuoteSelectNeverBare(mask, first) ==
    IF ~Intersects(mask, {"DoubleQuote", "Control", "Backslash"}) THEN "double"
    ELSE IF ~Intersects(mask, {"SingleQuote", "Control", "Backslash"}) THEN "single"
    ELSE IF (mask \cap ({"Backtick"} \cup XS)) \in {{}, XS} THEN "backtick"
    ELSE "escaped"

\* QuoteSelect whose single-quote test leaves SingleQuote out of the mask it tests
QuoteSelectSingleUnchecked(mask, first) ==
    IF mask = {} /\ first # 91 /\ first # 123 THEN "bare"
    ELSE IF ~Intersects(mask, {"DoubleQuote", "Control", "Backslash"}) THEN "double"
    ELSE IF ~Intersects(mask, {"Control", "Backslash"}) THEN "single"
    ELSE IF (mask \cap ({"Backtick"} \cup XS)) \in {{}, XS} THEN "backtick"
    ELSE "escaped"

\* QuoteSelect without the test of the first byte
QuoteSelectBracketBare(mask, first) ==
    IF mask = {} THEN "bare"
    ELSE IF ~Intersects(mask, {"DoubleQuote", "Control", "Backslash"}) THEN "double"
    ELSE IF ~Intersects(mask, {"SingleQuote", "Control", "Backslash"}) THEN "single"
    ELSE IF (mask \cap ({"Backtick"} \cup XS)) \in {{}, XS} THEN "backtick"
    ELSE "escaped"

\* The decision of ValueFormatAuto::format once the mask and the first decoded
\* byte are known: which of the five renderings is produced.
QuoteSelect(mask, first) ==
    IF mask = {} /\ first # 91 /\ first # 123 THEN "bare"
    ELSE IF ~Intersects(mask, {"DoubleQuote", "Control", "Backslash"}) THEN "double"
    ELSE IF ~Intersects(mask, {"SingleQuote", "Control", "Backslash"}) THEN "single"
    ELSE IF (mask \cap ({"Backtick"} \cup XS)) \in {{}, XS} THEN "backtick"
    ELSE "escaped"

\* buf[begin..].rotate_right(1)
RotateRight1(b, begin) ==
    IF Len(b) <= begin THEN b
    ELSE SubSeq(b, 1, begin) \o <<Last(b)>> \o SubSeq(b, begin + 1, Len(b) - 1)

\* buf.push(q); buf.push(q); buf[begin..].rotate_right(1)
Wrap(b, begin, q) == RotateRight1(b \o <<q, q>>, begin)

\* ValueFormatRaw::format and MessageFormatRaw::format: string.decode(buf)
FormatRaw(b, str) ==
    LET d == Decode(str) IN [ok |-> d.ok, buf |-> b \o d.out]

\* EncodedStringExt::format_json; a failed decode returns before the closing quote
FormatJson(b, str) ==
    LET d == Decode(str)
    IN  IF d.ok THEN [ok |-> TRUE, buf |-> b \o <<34>> \o JsonEscape(d.out) \o <<34>>]
        ELSE [ok |-> FALSE, buf |-> b \o <<34>> \o JsonEscape(d.out)]

\* ValueFormatAuto::format after the test for the empty string
ValueFormatNonEmpty(b, str) ==
    LET begin == Len(b)
        r == FormatRaw(b, str)
    IN  IF ~r.ok THEN r
        ELSE LET kind == QuoteSelect(MaskOf(From(r.buf, begin)), r.buf[begin + 1])
             IN  CASE kind = "bare"     -> r
                   [] kind = "double"   -> [ok |-> TRUE, buf |-> Wrap(r.buf, begin, 34)]
                   [] kind = "single"   -> [ok |-> TRUE, buf |-> Wrap(r.buf, begin, 39)]
                   [] kind = "backtick" -> [ok |-> TRUE, buf |-> Wrap(r.buf, begin, 96)]
                   [] OTHER             -> FormatJson(Truncate(r.buf, begin), str)

\* ValueFormatAuto::format with the empty string handled as a message handles it
ValueFormatAutoEmptyBare(b, str) ==
    IF StrIsEmpty(str) THEN [ok |-> TRUE, buf |-> b]
    ELSE ValueFormatNonEmpty(b, str)

\* ValueFormatAuto::format
ValueFormatAuto(b, str) ==
    IF StrIsEmpty(str) THEN [ok |-> TRUE, buf |-> b \o <<34, 34>>]
    ELSE ValueFormatNonEmpty(b, str)

\* MessageFormatAuto::format without the search for '='
MessageFormatAutoNoEqualSign(b, str) ==
    IF StrIsEmpty(str) THEN [ok |-> TRUE, buf |-> b]
    ELSE LET begin == Len(b)
             r == FormatRaw(b, str)
         IN  IF ~r.ok THEN r
             ELSE IF StartsWith(From(r.buf, begin), 34)
                  THEN FormatJson(Truncate(r.buf, begin), str)
                  ELSE r

\* MessageFormatAuto::format
MessageFormatAuto(b, str) ==
    IF StrIsEmpty(str) THEN [ok |-> TRUE, buf |-> b]
    ELSE LET begin == Len(b)
             r == FormatRaw(b, str)
         IN  IF ~r.ok THEN r
             ELSE IF StartsWith(From(r.buf, begin), 34) \/ Contains(From(r.buf, begin), 61)
                  THEN FormatJson(Truncate(r.buf, begin), str)
                  ELSE r

\* with_auto_trim looking for the last non-whitespace byte in the whole buffer
AutoTrimWhole(b, begin) ==
    LET keep == {i \in 1..Len(b) : ~IsAsciiWhitespace(b[i])}
    IN  IF keep # {} THEN Truncate(b, CHOOSE i \in keep : \A j \in keep : j <= i)
        ELSE b

\* The end of with_auto_trim: cut the span written since `begin` after its last
\* byte that is not ASCII whitespace, when there is such a byte.
AutoTrim(b, begin) ==
    LET keep == {i \in (begin + 1)..Len(b) : ~IsAsciiWhitespace(b[i])}
    IN  IF keep # {} THEN Truncate(b, CHOOSE i \in keep : \A j \in keep : j <= i)
        ELSE b

\* buf.with_auto_trim(|buf| f(buf).unwrap()): the unwrap panics before the trim
WithAutoTrim(b, r) == IF r.ok THEN [ok |-> TRUE, buf |-> AutoTrim(r.buf, Len(b))] ELSE r

---------------------------------------------------------------------------
(* Values of the record (model::RawValue)                                  *)

Str(enc, s) == [t |-> "str", enc |-> enc, s |-> s, items |-> <<>>]
Num(s)      == [t |-> "num", enc |-> "", s |-> s, items |-> <<>>]
Bool(b)     == [t |-> "bool", enc |-> "", s |-> IF b THEN <<116, 114, 117, 101>>
                                                  ELSE <<102, 97, 108, 115, 101>>,
                items |-> <<>>]
Null        == [t |-> "null", enc |-> "", s |-> <<110, 117, 108, 108>>, items |-> <<>>]
Obj(fields) == [t |-> "obj", enc |-> "", s |-> <<>>, items |-> fields]
Arr(items)  == [t |-> "arr", enc |-> "", s |-> <<>>, items |-> items]
\* an object or array whose span of source text s does not parse
BadSpan(t, s) == [t |-> t, enc |-> "bad", s |-> s, items |-> <<>>]

\* RawObject::parse and RawArray::parse succeed
Parses(v) == v.enc # "bad"

AsStr(v) == [enc |-> v.enc, s |-> v.s]

IsDigits(s) == Len(s) > 0 /\ \A i \in 1..Len(s) : s[i] \in 48..57

\* RawValue::auto: the type of a raw string, read off its text
RawValueAuto(s) ==
    CASE StartsWith(s, 34)       -> Str("json", s)
      [] s = Bool(TRUE).s        -> Bool(TRUE)
      [] s = Bool(FALSE).s       -> Bool(FALSE)
      [] s = Null.s              -> Null
      [] IsDigits(s)             -> Num(s)
      [] OTHER                   -> Str("raw", s)

\* a JSON string literal for a key of an object's source text
QuoteKey(k) == <<34>> \o JsonEscape(k) \o <<34>>

RECURSIVE JoinWith(_, _)
JoinWith(ss, sep) ==
    IF Len(ss) = 0 THEN <<>>
    ELSE IF Len(ss) = 1 THEN ss[1]
    ELSE ss[1] \o sep \o JoinWith(Tail(ss), sep)

\* RawValue::raw_str: the source text of a value
RECURSIVE RawStr(_)
RawStr(v) ==
    CASE ~Parses(v) -> v.s
      [] v.t = "obj" ->
            <<123>> \o JoinWith([i \in 1..Len(v.items) |->
                          QuoteKey(v.items[i][1]) \o <<58>> \o RawStr(v.items[i][2])], <<44>>)
                    \o <<125>>
      [] v.t = "arr" ->
            <<91>> \o JoinWith([i \in 1..Len(v.items) |-> RawStr(v.items[i])], <<44>>)
                   \o <<93>>
      [] OTHER -> v.s

\* RawValue::is_empty
IsEmpty(v) ==
    CASE v.t = "str"  -> StrIsEmpty(AsStr(v))
      [] v.t = "null" -> TRUE
      [] v.t \in {"obj", "arr"} -> Parses(v) /\ Len(v.items) = 0
      [] OTHER -> FALSE

---------------------------------------------------------------------------
(* The field filter (IncludeExcludeKeyFilter): a tree of nodes, each with  *)
(* a setting and children by key.  An optional filter is <<>> or <<node>>. *)

Node(setting, children) == [setting |-> setting, children |-> children]

NoChildren == [k \in {} |-> 0]

\* IncludeExcludeSetting::apply: an explicit setting of the child wins
Apply(setting, other) == IF other = "Unspecified" THEN setting ELSE other

\* the head of format looking the key up as it is printed, not as it is written
ResolvePrettified(filter, key, setting) ==
    IF Len(filter) = 0 THEN [filter |-> <<>>, setting |-> setting, leaf |-> TRUE]
    ELSE LET node == filter[1]
             s == Apply(setting, node.setting)
             k == [i \in 1..Len(key) |-> IF key[i] = 95 THEN 45 ELSE key[i]]
         IN  IF k \in DOMAIN node.children
             THEN LET child == node.children[k]
                  IN  [filter |-> <<child>>, setting |-> Apply(s, child.setting),
                       leaf |-> DOMAIN child.children = {}]
             ELSE [filter |-> <<>>, setting |-> s, leaf |-> TRUE]

\* The head of FieldFormatter::format: the child filter node, the resolved
\* setting and whether the node is a leaf.
Resolve(filter, key, setting) ==
    IF Len(filter) = 0 THEN [filter |-> <<>>, setting |-> setting, leaf |-> TRUE]
    ELSE LET node == filter[1]
             s == Apply(setting, node.setting)
         IN  IF key \in DOMAIN node.children
             THEN LET child == node.children[key]
                  IN  [filter |-> <<child>>, setting |-> Apply(s, child.setting),
                       leaf |-> DOMAIN child.children = {}]
             ELSE [filter |-> <<>>, setting |-> s, leaf |-> TRUE]

---------------------------------------------------------------------------
(* FormattingState, KeyPrefix and the begin/end protocol of a field        *)

\* KeyPrettify::key_prettify: every underscore becomes a hyphen
KeyPrettify(key) == [i \in 1..Len(key) |-> IF key[i] = 95 THEN 45 ELSE key[i]]

\* KeyPrefix::push returning the length of the key, the dot not counted
KeyPrefixPushKeyLen(value, key) ==
    LET len == Len(value)
        dotted == IF len # 0 THEN value \o <<46>> ELSE value
    IN  [value |-> dotted \o KeyPrettify(key), n |-> Len(key)]

\* KeyPrefix::push: the new content and the number of bytes appended
KeyPrefixPush(value, key) ==
    LET len == Len(value)
        dotted == IF len # 0 THEN value \o <<46>> ELSE value
        pushed == dotted \o KeyPrettify(key)
    IN  [value |-> pushed, n |-> Len(pushed) - len]

\* KeyPrefix::pop
KeyPrefixPop(value, n) ==
    IF n # 0
    THEN IF n >= Len(value) THEN <<>> ELSE SubSeq(value, 1, Len(value) - n)
    ELSE value

Normal(flatten) == [t |-> "Normal", flatten |-> flatten, n |-> 0]
Flattened(n)    == [t |-> "Flattened", flatten |-> FALSE, n |-> n]
\* no variant: a value rendered as an array element, outside begin/end
NoVariant       == [t |-> "None", flatten |-> FALSE, n |-> 0]

\* Punctuation
FieldKeyValueSeparator == <<61>>
HiddenFieldsIndicator  == <<32, 46, 46, 46>>
ArraySeparator         == <<32>>
LevelLeftSeparator     == <<124>>
LevelRightSeparator    == <<124>>
LoggerNameSeparator    == <<58>>
SourceLocationSeparator == <<64, 32>>

\* FormattingState::new
NewState(flatten) == [key_prefix |-> <<>>, flatten |-> flatten, empty |-> TRUE]

\* FormattingState::add_element, add_space appending the bytes sep
AddElement(b, state, sep) ==
    IF state.empty THEN [buf |-> b, fs |-> [state EXCEPT !.empty = FALSE]]
    ELSE [buf |-> b \o sep, fs |-> state]

\* begin leaving flatten mode as it is for a field whose value is an array
BeginArrayKeepsFlatten(b, key, value, state) ==
    IF state.flatten /\ value.t = "obj"
    THEN LET p == KeyPrefixPush(state.key_prefix, key)
         IN  [ffv |-> Flattened(p.n), buf |-> b,
              fs |-> [state EXCEPT !.key_prefix = p.value]]
    ELSE LET a == AddElement(b, state, <<32>>)
             prefix == IF state.flatten /\ Len(state.key_prefix) # 0
                       THEN state.key_prefix \o <<46>> ELSE <<>>
         IN  [ffv |-> Normal(state.flatten),
              buf |-> a.buf \o prefix \o KeyPrettify(key) \o FieldKeyValueSeparator,
              fs |-> [a.fs EXCEPT !.flatten = IF value.t = "arr" THEN @ ELSE FALSE]]

\* FieldFormatter::begin
Begin(b, key, value, state) ==
    IF state.flatten /\ value.t = "obj"
    THEN LET p == KeyPrefixPush(state.key_prefix, key)
         IN  [ffv |-> Flattened(p.n), buf |-> b,
              fs |-> [state EXCEPT !.key_prefix = p.value]]
    ELSE LET a == AddElement(b, state, <<32>>)
             prefix == IF state.flatten /\ Len(state.key_prefix) # 0
                       THEN state.key_prefix \o <<46>> ELSE <<>>
         IN  [ffv |-> Normal(state.flatten),
              buf |-> a.buf \o prefix \o KeyPrettify(key) \o FieldKeyValueSeparator,
              fs |-> [a.fs EXCEPT !.flatten = FALSE]]

\* FieldFormatter::end
End(state, ffv) ==
    CASE ffv.t = "Normal"    -> [state EXCEPT !.flatten = ffv.flatten]
      [] ffv.t = "Flattened" -> [state EXCEPT !.key_prefix = KeyPrefixPop(@, ffv.n)]
      [] OTHER               -> state

---------------------------------------------------------------------------
(* The frames of the field recursion.  A frame is one loop: over the       *)
(* fields of the record ("rec"), over the single pseudo-field "msg" of a   *)
(* non-string message ("msg"), over the members of an object ("obj") or    *)
(* over the elements of an array ("arr").  ffv is the variant begin()      *)
(* returned for the field whose value the frame renders; entry is the      *)
(* flatten state when that field was entered and path names the scope.     *)

Frame(kind, items, filter, setting, ffv, entry, path) ==
    [kind |-> kind, items |-> items, i |-> 1, hidden |-> FALSE, filter |-> filter,
     setting |-> setting, ffv |-> ffv, entry |-> entry, path |-> path]

Top == stack[Len(stack)]

\* some_fields_hidden assigned, not accumulated
AdvanceAssign(stk, dropped) ==
    [stk EXCEPT ![Len(stk)].i = @ + 1, ![Len(stk)].hidden = dropped]

\* the innermost loop moves on; a field that returned false sets some_fields_hidden
Advance(stk, dropped) ==
    [stk EXCEPT ![Len(stk)].i = @ + 1, ![Len(stk)].hidden = @ \/ dropped]

Elem(el, scope, from, to, trim) ==
    [el |-> el, scope |-> scope, from |-> from, to |-> to, trim |-> trim]

ElementOf(v) ==
    CASE v.t = "str"  -> "String"
      [] v.t = "num"  -> "Number"
      [] v.t = "bool" -> "Boolean"
      [] v.t = "null" -> "Null"
      [] v.t = "obj"  -> "Object"
      [] OTHER        -> "Array"

\* the head of format_value: a raw string is typed by its text
Auto(v) == IF v.t = "str" /\ v.enc = "raw" THEN RawValueAuto(v.s) ELSE v

\* format_value falling back to the source text of a string that does not decode
FormatScalarOrSource(b, value) ==
    LET v == Auto(value)
        r == IF v.t = "str" THEN WithAutoTrim(b, ValueFormatAuto(b, AsStr(v)))
             ELSE [ok |-> TRUE, buf |-> b \o v.s]
    IN  IF r.ok THEN r ELSE [ok |-> TRUE, buf |-> b \o RawStr(value)]

\* format_value for a string, a number, a boolean or null
FormatScalar(b, value) ==
    LET v == Auto(value)
    IN  IF v.t = "str" THEN WithAutoTrim(b, ValueFormatAuto(b, AsStr(v)))
        ELSE [ok |-> TRUE, buf |-> b \o v.s]

\* the opening of format_value for an object
ObjectOpen(b, state) == IF ~state.flatten THEN b \o <<123>> ELSE b

\* the closing of format_value for an object
ObjectClose(b, state, frame) ==
    LET b1 == IF frame.hidden THEN b \o HiddenFieldsIndicator ELSE b
    IN  IF ~state.flatten
        THEN b1 \o (IF Len(frame.items) # 0 THEN <<32>> ELSE <<>>) \o <<125>>
        ELSE b1

\* the separator written before an array element
ElemSeparator(frame) == IF frame.i > 1 THEN ArraySeparator ELSE <<>>

\* The value of a frame is rendered: its field ends (end() and `true` to the
\* enclosing loop), or, for an array element, the array's loop moves on.
Return(stk) == Advance(Front(stk), FALSE)

InScope ==
    /\ pc \in {"message", "fields"}
    /\ Len(stack) > 0
    /\ Top.kind \in {"rec", "msg", "obj"}
    /\ Top.i <= Len(Top.items)

InArray ==
    /\ pc \in {"message", "fields"}
    /\ Len(stack) > 0
    /\ Top.kind = "arr"
    /\ Top.i <= Len(Top.items)

AtEnd(kind) ==
    /\ pc \in {"message", "fields"}
    /\ Len(stack) > 0
    /\ Top.kind = kind
    /\ Top.i > Len(Top.items)

CurKey == Top.items[Top.i][1]
CurVal == Top.items[Top.i][2]
CurElem == Top.items[Top.i]
CurPath == Top.path \o <<Top.i>>
Res == Resolve(Top.filter, CurKey, Top.setting)

\* format_record skips an empty field when hide_empty_fields is set
Skipped == Top.kind = "rec" /\ cfg.hide_empty_fields /\ IsEmpty(CurVal)

Excluded == Res.setting = "Exclude" /\ Res.leaf

Rendered == InScope /\ ~Skipped /\ ~Excluded

\* the fields of the record with only the first field of every key
RECURSIVE DistinctKeys(_, _)
DistinctKeys(fields, seen) ==
    IF Len(fields) = 0 THEN <<>>
    ELSE IF Head(fields)[1] \in seen THEN DistinctKeys(Tail(fields), seen)
    ELSE <<Head(fields)>> \o DistinctKeys(Tail(fields), seen \cup {Head(fields)[1]})

\* the loop of format_record over a map of the fields, not over their list
RecFrameByKey(state) ==
    Frame("rec", DistinctKeys(rec.fields, {}), <<cfg.fields>>, "Unspecified", NoVariant,
          state, <<>>)

RecFrame(state) ==
    Frame("rec", rec.fields, <<cfg.fields>>, "Unspecified", NoVariant, state, <<>>)

---------------------------------------------------------------------------
(* RecordFormatter::format_record: the elements before the fields          *)

TsWidth == 3

\* aligned_left(buf, width, b' ', f)
AlignedLeft(text, width) ==
    text \o [i \in 1..(IF Len(text) < width THEN width - Len(text) ELSE 0) |-> 32]

\* centered(buf, width, b'-', "-")
Centered(width) == [i \in 1..(IF width > 1 THEN width ELSE 1) |-> 45]

LevelText(level) ==
    CASE level = "Debug"   -> <<68, 66, 71>>
      [] level = "Info"    -> <<73, 78, 70>>
      [] level = "Warning" -> <<87, 82, 78>>
      [] level = "Error"   -> <<69, 82, 82>>
      [] OTHER             -> <<>>

FormatTime ==
    /\ pc = "time"
    /\ pc' = "level"
    /\ IF Len(rec.ts) > 0 THEN
           LET a == AddElement(buf, fs, <<>>)
           IN  /\ buf' = a.buf \o AlignedLeft(rec.ts[1], TsWidth)
               /\ fs' = a.fs
               /\ els' = Append(els, Elem("Time", <<>>, Len(a.buf), Len(buf'), FALSE))
       ELSE IF cfg.always_show_time THEN
           LET a == AddElement(buf, fs, <<>>)
           IN  /\ buf' = a.buf \o Centered(TsWidth)
               /\ fs' = a.fs
               /\ els' = Append(els, Elem("Time", <<>>, Len(a.buf), Len(buf'), FALSE))
       ELSE UNCHANGED <<buf, fs, els>>
    /\ UNCHANGED <<cfg, rec, stack, drops, base>>

FormatLevel ==
    /\ pc = "level"
    /\ pc' = "logger"
    /\ LET level == IF LevelText(rec.level) # <<>> THEN LevelText(rec.level)
                    ELSE IF cfg.always_show_level THEN <<40, 63, 41>> ELSE <<>>
       IN  IF level # <<>> THEN
               LET a == AddElement(buf, fs, <<32>>)
               IN  /\ buf' = a.buf \o LevelLeftSeparator \o level \o LevelRightSeparator
                   /\ fs' = a.fs
                   /\ els' = Append(els, Elem("Level", <<>>, Len(a.buf), Len(buf'), FALSE))
           ELSE UNCHANGED <<buf, fs, els>>
    /\ UNCHANGED <<cfg, rec, stack, drops, base>>

FormatLogger ==
    /\ pc = "logger"
    /\ pc' = "message"
    /\ IF Len(rec.logger) > 0 THEN
           LET a == AddElement(buf, fs, <<32>>)
           IN  /\ buf' = a.buf \o rec.logger[1] \o LoggerNameSeparator
               /\ fs' = a.fs
               /\ els' = Append(els, Elem("Logger", <<>>, Len(a.buf), Len(buf'), FALSE))
       ELSE UNCHANGED <<buf, fs, els>>
    /\ UNCHANGED <<cfg, rec, stack, drops, base>>

\* format_message for an absent or a string message
FormatMessage ==
    /\ pc = "message"
    /\ stack = <<>>
    /\ IF Len(rec.message) = 0 THEN TRUE ELSE rec.message[1].t = "str"
    /\ IF Len(rec.message) > 0 /\ ~StrIsEmpty(AsStr(rec.message[1])) THEN
           LET a == AddElement(buf, fs, <<32>>)
               r == WithAutoTrim(a.buf, MessageFormatAuto(a.buf, AsStr(rec.message[1])))
           IN  /\ buf' = r.buf
               /\ fs' = a.fs
               /\ IF r.ok
                  THEN /\ pc' = "fields"
                       /\ stack' = <<RecFrame(a.fs)>>
                       /\ els' = Append(els, Elem("Message", <<>>, Len(a.buf), Len(buf'), TRUE))
                  ELSE /\ pc' = "panic"
                       /\ UNCHANGED <<stack, els>>
       ELSE /\ pc' = "fields"
            /\ stack' = <<RecFrame(fs)>>
            /\ UNCHANGED <<buf, fs, els>>
    /\ UNCHANGED <<cfg, rec, drops, base>>

\* format_message for a message that is not a string: format_field("msg", ...)
MessageAsField ==
    /\ pc = "message"
    /\ stack = <<>>
    /\ Len(rec.message) > 0
    /\ rec.message[1].t # "str"
    /\ stack' = <<Frame("msg", << <<(<<109, 115, 103>>), rec.message[1]>> >>, <<cfg.fields>>,
                        "Unspecified", NoVariant, fs, <<0>>)>>
    /\ UNCHANGED <<cfg, rec, buf, fs, pc, els, drops, base>>

\* format_field returned to format_message, which discards its result
MessageEnd ==
    /\ AtEnd("msg")
    /\ pc' = "fields"
    /\ stack' = <<RecFrame(fs)>>
    /\ UNCHANGED <<cfg, rec, buf, fs, els, drops, base>>

---------------------------------------------------------------------------
(* The fields: the loop of format_record over rec.fields(), and            *)
(* FieldFormatter::format / format_value                                   *)

\* hide_empty_fields: an empty field of the record is not formatted at all
FieldSkipEmpty ==
    /\ InScope
    /\ Skipped
    /\ stack' = Advance(stack, FALSE)
    /\ UNCHANGED <<cfg, rec, buf, fs, pc, els, drops, base>>

\* format: the resolved setting is Exclude at a leaf, return false
FieldDrop ==
    /\ InScope
    /\ ~Skipped
    /\ Excluded
    /\ stack' = Advance(stack, TRUE)
    /\ drops' = drops \cup {CurPath}
    /\ UNCHANGED <<cfg, rec, buf, fs, pc, els, base>>

\* format with unescape_fields off: begin, the raw source of the value, end
FieldRaw ==
    /\ Rendered
    /\ ~cfg.unescape_fields
    /\ LET bg == Begin(buf, CurKey, CurVal, fs)
       IN  /\ buf' = bg.buf \o RawStr(CurVal)
           /\ fs' = End(bg.fs, bg.ffv)
           /\ els' = els \o <<Elem("Key", Top.path, Len(buf), Len(bg.buf), FALSE),
                              Elem("String", CurPath, Len(bg.buf), Len(buf'), FALSE)>>
    /\ stack' = Advance(stack, FALSE)
    /\ UNCHANGED <<cfg, rec, pc, drops, base>>

\* format for a string, a number, a boolean or null: begin, format_value, end
FieldScalar ==
    /\ Rendered
    /\ cfg.unescape_fields
    /\ CurVal.t \notin {"obj", "arr"}
    /\ LET bg == Begin(buf, CurKey, CurVal, fs)
           r == FormatScalar(bg.buf, CurVal)
       IN  /\ buf' = r.buf
           /\ IF r.ok
              THEN /\ fs' = End(bg.fs, bg.ffv)
                   /\ stack' = Advance(stack, FALSE)
                   /\ els' = els \o <<Elem("Key", Top.path, Len(buf), Len(bg.buf), FALSE),
                                      Elem(ElementOf(Auto(CurVal)), CurPath, Len(bg.buf),
                                           Len(buf'), Auto(CurVal).t = "str")>>
                   /\ UNCHANGED pc
              ELSE /\ pc' = "panic"
                   /\ fs' = bg.fs
                   /\ els' = Append(els, Elem("Key", Top.path, Len(buf), Len(bg.buf), FALSE))
                   /\ UNCHANGED stack
    /\ UNCHANGED <<cfg, rec, drops, base>>

\* format for an object: begin, then format_value opens the object and loops
FieldObject ==
    /\ Rendered
    /\ cfg.unescape_fields
    /\ CurVal.t = "obj"
    /\ LET bg == Begin(buf, CurKey, CurVal, fs)
       IN  /\ fs' = bg.fs
           /\ els' = IF bg.ffv.t = "Normal"
                     THEN Append(els, Elem("Key", Top.path, Len(buf), Len(bg.buf), FALSE))
                     ELSE els
           /\ IF Parses(CurVal)
              THEN /\ buf' = ObjectOpen(bg.buf, bg.fs)
                   /\ stack' = Append(stack, Frame("obj", CurVal.items, Res.filter,
                                                   Res.setting, bg.ffv, fs, CurPath))
                   /\ UNCHANGED pc
              ELSE /\ buf' = bg.buf
                   /\ pc' = "panic"
                   /\ UNCHANGED stack
    /\ UNCHANGED <<cfg, rec, drops, base>>

\* format for an array: begin, then format_value opens the array and loops
FieldArray ==
    /\ Rendered
    /\ cfg.unescape_fields
    /\ CurVal.t = "arr"
    /\ LET bg == Begin(buf, CurKey, CurVal, fs)
       IN  /\ fs' = bg.fs
           /\ els' = Append(els, Elem("Key", Top.path, Len(buf), Len(bg.buf), FALSE))
           /\ IF Parses(CurVal)
              THEN /\ buf' = bg.buf \o <<91>>
                   /\ stack' = Append(stack, Frame("arr", CurVal.items, <<>>, "Unspecified",
                                                   bg.ffv, fs, CurPath))
                   /\ UNCHANGED pc
              ELSE /\ buf' = bg.buf
                   /\ pc' = "panic"
                   /\ UNCHANGED stack
    /\ UNCHANGED <<cfg, rec, drops, base>>

\* a string rendered without the test for the empty string and without the
\* test of the first byte
FormatElementPlain(b, value) ==
    LET v == Auto(value)
    IN  IF v.t # "str" THEN [ok |-> TRUE, buf |-> b \o v.s]
        ELSE IF StrIsEmpty(AsStr(v)) THEN [ok |-> TRUE, buf |-> b]
        ELSE LET r == FormatRaw(b, AsStr(v))
                 mask == MaskOf(From(r.buf, Len(b)))
             IN  IF r.ok /\ mask = {} THEN r
                 ELSE WithAutoTrim(b, ValueFormatAuto(b, AsStr(v)))

\* format_value of an array element with the plain rendering of strings
ElemScalarPlain ==
    /\ InArray
    /\ CurElem.t \notin {"obj", "arr"}
    /\ LET b == buf \o ElemSeparator(Top)
           r == FormatElementPlain(b, CurElem)
       IN  /\ buf' = r.buf
           /\ IF r.ok
              THEN /\ stack' = Advance(stack, FALSE)
                   /\ els' = Append(els, Elem(ElementOf(Auto(CurElem)), CurPath, Len(b),
                                              Len(buf'), Auto(CurElem).t = "str"))
                   /\ UNCHANGED pc
              ELSE /\ pc' = "panic"
                   /\ UNCHANGED <<stack, els>>
    /\ UNCHANGED <<cfg, rec, fs, drops, base>>

\* format_value of an array element that is a string, a number, a boolean or null
ElemScalar ==
    /\ InArray
    /\ CurElem.t \notin {"obj", "arr"}
    /\ LET b == buf \o ElemSeparator(Top)
           r == FormatScalar(b, CurElem)
       IN  /\ buf' = r.buf
           /\ IF r.ok
              THEN /\ stack' = Advance(stack, FALSE)
                   /\ els' = Append(els, Elem(ElementOf(Auto(CurElem)), CurPath, Len(b),
                                              Len(buf'), Auto(CurElem).t = "str"))
                   /\ UNCHANGED pc
              ELSE /\ pc' = "panic"
                   /\ UNCHANGED <<stack, els>>
    /\ UNCHANGED <<cfg, rec, fs, drops, base>>

\* format_value of an array element that is an object: no filter, setting Unspecified
ElemObject ==
    /\ InArray
    /\ CurElem.t = "obj"
    /\ IF Parses(CurElem)
       THEN /\ buf' = ObjectOpen(buf \o ElemSeparator(Top), fs)
            /\ stack' = Append(stack, Frame("obj", CurElem.items, <<>>, "Unspecified",
                                            NoVariant, fs, CurPath))
            /\ UNCHANGED pc
       ELSE /\ buf' = buf \o ElemSeparator(Top)
            /\ pc' = "panic"
            /\ UNCHANGED stack
    /\ UNCHANGED <<cfg, rec, fs, els, drops, base>>

\* format_value of an array element that is an array
ElemArray ==
    /\ InArray
    /\ CurElem.t = "arr"
    /\ IF Parses(CurElem)
       THEN /\ buf' = buf \o ElemSeparator(Top) \o <<91>>
            /\ stack' = Append(stack, Frame("arr", CurElem.items, <<>>, "Unspecified",
                                            NoVariant, fs, CurPath))
            /\ UNCHANGED pc
       ELSE /\ buf' = buf \o ElemSeparator(Top)
            /\ pc' = "panic"
            /\ UNCHANGED stack
    /\ UNCHANGED <<cfg, rec, fs, els, drops, base>>

\* The loop over an object's members is over: the hidden-fields indicator, the
\* closing brace, and the field (if any) ends.
ObjectEnd ==
    /\ AtEnd("obj")
    /\ buf' = ObjectClose(buf, fs, Top)
    /\ fs' = End(fs, Top.ffv)
    /\ stack' = Return(stack)
    /\ els' = IF Top.hidden
              THEN Append(els, Elem("Ellipsis", Top.path, Len(buf),
                                    Len(buf) + Len(HiddenFieldsIndicator), FALSE))
              ELSE els
    /\ UNCHANGED <<cfg, rec, pc, drops, base>>

\* The loop over an array's elements is over: the closing bracket, and the
\* field (if any) ends.
ArrayEnd ==
    /\ AtEnd("arr")
    /\ buf' = buf \o <<93>>
    /\ fs' = End(fs, Top.ffv)
    /\ stack' = Return(stack)
    /\ UNCHANGED <<cfg, rec, pc, els, drops, base>>

\* format_record after the loop over the fields: the hidden-fields indicator
RecordEnd ==
    /\ AtEnd("rec")
    /\ pc' = "caller"
    /\ stack' = <<>>
    /\ IF Top.hidden
       THEN /\ buf' = buf \o HiddenFieldsIndicator
            /\ els' = Append(els, Elem("Ellipsis", <<>>, Len(buf), Len(buf'), FALSE))
       ELSE UNCHANGED <<buf, els>>
    /\ UNCHANGED <<cfg, rec, fs, drops, base>>

\* format_record: the caller, the last element
FormatCaller ==
    /\ pc = "caller"
    /\ pc' = "done"
    /\ IF Len(rec.caller) > 0 THEN
           LET c == rec.caller[1]
               text == IF c.t = "Text" THEN c.text
                       ELSE c.file \o (IF Len(c.line) # 0 THEN <<58>> \o c.line ELSE <<>>)
           IN  /\ buf' = buf \o <<32>> \o SourceLocationSeparator \o text
               /\ els' = Append(els, Elem("Caller", <<>>, Len(buf), Len(buf'), FALSE))
       ELSE UNCHANGED <<buf, els>>
    /\ UNCHANGED <<cfg, rec, fs, stack, drops, base>>

---------------------------------------------------------------------------
(* Records and formatters the model is run on                              *)

MaxLen == 3
MaxSize == 3

SeqsUpTo(S, n) == UNION {[1..k -> S] : k \in 0..n}

\* a, space, ", ', `, \, =, tab, ESC, [
Alphabet == {97, 32, 34, 39, 96, 92, 61, 9, 27, 91}

\* one byte of each category: ", ', \, `, space, =, ESC, tab
Representatives == <<34, 39, 92, 96, 32, 61, 27, 9>>

\* the bytes of Representatives at the positions T, in order
PickAt(T) ==
    [j \in 1..Cardinality(T) |->
        Representatives[CHOOSE i \in T : Cardinality({x \in T : x < i}) = j - 1]]

\* every combination of categories, behind nothing, a letter, [ or {
CategoryStrings ==
    {p \o PickAt(T) : p \in {<<>>, <<97>>, <<91>>, <<123>>},
                      T \in SUBSET (1..Len(Representatives))}

Strings == SeqsUpTo(Alphabet, MaxLen) \cup CategoryStrings

\* the JSON source of a string: quotes and backslashes escaped, control bytes
\* written as \u00XX
JsonSourceByte(b) ==
    CASE b = 34 -> <<92, 34>>
      [] b = 92 -> <<92, 92>>
      [] b < 32 -> <<92, 117, 48, 48, HexDigit(b \div 16), HexDigit(b % 16)>>
      [] OTHER  -> <<b>>

JsonSource(s) == <<34>> \o Concat([i \in 1..Len(s) |-> JsonSourceByte(s[i])]) \o <<34>>

JsonStr(s) == Str("json", JsonSource(s))
RawStrOf(s) == Str("raw", s)

\* string field values: JSON strings, and the raw strings that RawValue::auto
\* leaves strings
ValueInputs ==
    {JsonStr(s) : s \in Strings}
        \cup {RawStrOf(s) : s \in {x \in Strings : RawValueAuto(x) = RawStrOf(x)}}

MessageInputs == {JsonStr(s) : s \in Strings} \cup {RawStrOf(s) : s \in Strings}

KE  == <<>>
KAB == <<97, 95, 98>>
Keys == {KE, KAB}

Leaves == {Num(<<52, 50>>), JsonStr(<<>>)}

\* further scalars, as the value of a single field of the record
TopLeaves ==
    {RawStrOf(<<>>), RawStrOf(<<118>>), RawStrOf(<<52, 50>>), JsonStr(<<97, 32, 98>>),
     Bool(TRUE), Null}

\* values by size: a scalar, {} and [] have size 1, a container one more than
\* its members
RECURSIVE ValuesOfSize(_), FieldLists(_), ElemLists(_)
ValuesOfSize(n) ==
    IF n = 1 THEN Leaves \cup {Obj(<<>>), Arr(<<>>)}
    ELSE {Obj(l) : l \in FieldLists(n - 1)} \cup {Arr(l) : l \in ElemLists(n - 1)}
FieldLists(n) ==
    IF n = 0 THEN {<<>>}
    ELSE UNION {{<< <<k, v>> >> \o l : k \in Keys, v \in ValuesOfSize(m),
                                       l \in FieldLists(n - m)} : m \in 1..n}
ElemLists(n) ==
    IF n = 0 THEN {<<>>}
    ELSE UNION {{<<v>> \o l : v \in ValuesOfSize(m), l \in ElemLists(n - m)} : m \in 1..n}

\* arrays of strings: "[", "{a" and the empty string as elements
StringArrays ==
    {Arr(<<JsonStr(<<91>>)>>),
     Arr(<<JsonStr(<<123, 97>>), JsonStr(<<>>)>>),
     Arr(<<JsonStr(<<97>>), JsonStr(<<91, 97>>)>>)}

FieldInputs ==
    UNION {FieldLists(n) : n \in 0..MaxSize}
        \cup {<< <<k, v>> >> : k \in Keys, v \in TopLeaves \cup StringArrays}

Leaf(setting) == Node(setting, NoChildren)

NoFilterSet == Leaf("Unspecified")

Filters ==
    { Leaf("Exclude"),
      Node("Unspecified", KAB :> Leaf("Exclude")),
      Node("Unspecified", (KAB :> Node("Exclude", KAB :> Leaf("Include")))
                           @@ (KE :> Node("Unspecified", KE :> Leaf("Exclude")))),
      Node("Exclude", KE :> Node("Include", KAB :> Leaf("Exclude"))),
      Node("Unspecified",
           KE :> Node("Unspecified",
                      (KE :> Node("Unspecified", KAB :> Leaf("Exclude")))
                          @@ (KAB :> Leaf("Exclude")))) }

\* RecordFormatter::new
DefaultCfg ==
    [unescape_fields |-> TRUE, flatten |-> FALSE, hide_empty_fields |-> FALSE,
     always_show_time |-> FALSE, always_show_level |-> FALSE, fields |-> NoFilterSet]

\* Record::default
EmptyRecord ==
    [ts |-> <<>>, level |-> "None", logger |-> <<>>, message |-> <<>>,
     fields |-> <<>>, caller |-> <<>>]

CallerText(text) == [t |-> "Text", text |-> text, file |-> <<>>, line |-> <<>>]
CallerFileLine(file, line) == [t |-> "FileLine", text |-> <<>>, file |-> file, line |-> line]

\* format_record starting in flatten mode whenever flatten is configured
StartFlattenAlone(b) ==
    /\ base = b
    /\ buf = b
    /\ fs = NewState(cfg.flatten)
    /\ pc = "time"
    /\ stack = <<>>
    /\ els = <<>>
    /\ drops = {}

\* the start of format_record on the buffer content b
Start(b) ==
    /\ base = b
    /\ buf = b
    /\ fs = NewState(cfg.flatten /\ cfg.unescape_fields)
    /\ pc = "time"
    /\ stack = <<>>
    /\ els = <<>>
    /\ drops = {}

\* one string, as the value of the field a_b or as the message
InitString ==
    /\ cfg = DefaultCfg
    /\ \/ /\ rec \in {[EmptyRecord EXCEPT !.fields = << <<KAB, v>> >>] : v \in ValueInputs}
          /\ Start(<<>>)
       \/ /\ rec \in {[EmptyRecord EXCEPT !.message = <<m>>] : m \in MessageInputs}
          /\ Start(<<120, 32>>)

\* field trees under every setting, and under the filters
InitFields ==
    /\ rec \in {[EmptyRecord EXCEPT !.fields = l] : l \in FieldInputs}
    /\ \/ cfg \in {[DefaultCfg EXCEPT !.unescape_fields = u, !.flatten = f,
                                      !.hide_empty_fields = h] : u, f, h \in BOOLEAN}
       \/ cfg \in {[DefaultCfg EXCEPT !.flatten = f, !.fields = x] :
                      f \in BOOLEAN, x \in Filters}
    /\ Start(<<>>)

\* records with and without each of the elements around the fields
InitHeader ==
    /\ rec \in [ts : {<<>>, << <<84>> >>},
                level : {"None", "Debug", "Error"},
                logger : {<<>>, << <<116, 108>> >>},
                message : {<<>>, <<JsonStr(<<116, 109>>)>>, <<Num(<<52, 50>>)>>,
                           <<Obj(<< <<KAB, Num(<<52, 50>>)>> >>)>>},
                fields : {<<>>, << <<KAB, Num(<<52, 50>>)>> >>},
                caller : {<<>>, <<CallerText(<<116, 99>>)>>,
                          <<CallerFileLine(<<102>>, <<55>>)>>,
                          <<CallerFileLine(<<102>>, <<>>)>>}]
    /\ cfg \in {[DefaultCfg EXCEPT !.always_show_time = a, !.always_show_level = b,
                                   !.fields = x] :
                   a, b \in BOOLEAN, x \in {NoFilterSet, Leaf("Exclude")}}
    /\ Start(<<>>)

Init == InitFields \/ InitHeader

Next ==
    \/ FormatTime
    \/ FormatLevel
    \/ FormatLogger
    \/ FormatMessage
    \/ MessageAsField
    \/ MessageEnd
    \/ FieldSkipEmpty
    \/ FieldDrop
    \/ FieldRaw
    \/ FieldScalar
    \/ FieldObject
    \/ FieldArray
    \/ ElemScalar
    \/ ElemObject
    \/ ElemArray
    \/ ObjectEnd
    \/ ArrayEnd
    \/ RecordEnd
    \/ FormatCaller

Spec == Init /\ [][Next]_vars

NextString ==
    \/ FormatTime
    \/ FormatLevel
    \/ FormatLogger
    \/ FormatMessage
    \/ FieldScalar
    \/ RecordEnd
    \/ FormatCaller

SpecString == InitString /\ [][NextString]_vars

\* a JSON string with a malformed escape sequence: "a\x"
BadEscape == Str("json", <<34, 97, 92, 120, 34>>)
\* an object and an array whose source text stops after the opening bracket
BadObject == BadSpan("obj", <<123>>)
BadArray  == BadSpan("arr", <<91>>)

ErrorLeaves == {BadEscape, BadObject, BadArray, Num(<<52, 50>>), Null}

\* a leaf as a field value, as a member and as an element, at the first place
\* and after a well-formed one, one and two levels down
ErrorValues ==
    ErrorLeaves \cup UNION {
        { Obj(<< <<KAB, l>> >>),
          Obj(<< <<KAB, Num(<<52, 50>>)>>, <<KAB, l>> >>),
          Obj(<< <<KAB, Obj(<< <<KAB, l>> >>)>> >>),
          Obj(<< <<KAB, Arr(<<l>>)>> >>),
          Arr(<<l>>),
          Arr(<<Num(<<52, 50>>), l>>),
          Arr(<<Obj(<< <<KAB, l>> >>)>>),
          Arr(<<Arr(<<l>>)>>) } : l \in ErrorLeaves}

\* records with values that do not decode or do not parse, written after `x`
InitError ==
    /\ rec \in [ts : {<<>>}, level : {"None"}, logger : {<<>>}, caller : {<<>>},
                message : {<<>>, <<BadEscape>>, <<BadObject>>, <<JsonStr(<<116, 109>>)>>,
                           <<Obj(<< <<KAB, BadEscape>> >>)>>},
                fields : {<<>>} \cup {<< <<KAB, v>> >> : v \in ErrorValues}
                             \cup {<< <<KAB, Num(<<52, 50>>)>>, <<KAB, v>> >> :
                                      v \in ErrorValues}]
    /\ cfg \in {[DefaultCfg EXCEPT !.unescape_fields = u, !.flatten = f,
                                   !.hide_empty_fields = h, !.fields = x] :
                   u, f, h \in BOOLEAN, x \in {NoFilterSet, Leaf("Exclude")}}
    /\ Start(<<120>>)

SpecError == InitError /\ [][Next]_vars

---------------------------------------------------------------------------
(* What the claims speak of                                                *)

\* the value at a path of the record: field, then member or element positions
RECURSIVE Descend(_, _)
Descend(v, p) ==
    IF Len(p) = 0 THEN v
    ELSE LET c == v.items[Head(p)]
         IN  Descend(IF v.t = "obj" THEN c[2] ELSE c, Tail(p))

ValueAt(p) ==
    IF p[1] = 0 THEN Descend(rec.message[1], Tail(Tail(p)))
    ELSE Descend(rec.fields[p[1]][2], Tail(p))

\* the bytes of the buffer an element stands for
Span(e) == SubSeq(buf, e.from + 1, e.to)

\* the string values rendered by format_value, and the rendered string message
StringElems == {i \in 1..Len(els) : els[i].el = "String" /\ els[i].trim}
MessageElems == {i \in 1..Len(els) : els[i].el = "Message"}

\* the decoded bytes of the string an element renders
DecodedOf(e) ==
    IF e.el = "Message" THEN Decode(AsStr(rec.message[1])).out
    ELSE Decode(AsStr(Auto(ValueAt(e.scope)))).out

IsControl(b) == b < 32

Quoted(q, s) == <<q>> \o s \o <<q>>

Escaped(s) == Quoted(34, JsonEscape(s))

RECURSIVE StripTrailing(_)
StripTrailing(s) ==
    IF Len(s) = 0 THEN s
    ELSE IF IsAsciiWhitespace(Last(s)) THEN StripTrailing(Front(s))
    ELSE s

---------------------------------------------------------------------------
(* C1: a non-empty string value with no quote of any kind, no control byte *)
(* and no leading bracket is emitted as it is, without quotes.             *)

C1_Plain(s) ==
    /\ Len(s) > 0
    /\ \A i \in 1..Len(s) : s[i] \notin {34, 39, 96} /\ ~IsControl(s[i])
    /\ s[1] \notin {91, 123}

\* C1 as stated: every such string is emitted bare.  A space, an equal sign or
\* a backslash also sets a mask bit, and the value is then quoted.
C1_Original ==
    \A i \in StringElems :
        C1_Plain(DecodedOf(els[i])) => Span(els[i]) = DecodedOf(els[i])

\* C1 amended: a non-empty string value with no double quote, single quote,
\* backtick, backslash, space, equal sign or control byte, not starting with
\* [ or {, is emitted exactly as it is, with no wrapping quotes.
C1_BareWhenMaskEmpty ==
    \A i \in StringElems :
        LET s == DecodedOf(els[i])
        IN  (C1_Plain(s) /\ \A j \in 1..Len(s) : s[j] \notin {92, 32, 61})
                => Span(els[i]) = s

C1_Witness ==
    \E i \in StringElems :
        LET s == DecodedOf(els[i])
        IN  /\ C1_Plain(s)
            /\ \A j \in 1..Len(s) : s[j] \notin {92, 32, 61}
            /\ Len(s) = MaxLen
            /\ Contains(s, 91)
            /\ Span(els[i]) = s
            /\ pc = "done"

---------------------------------------------------------------------------
(* C2: a value is wrapped in backticks only if it has no backtick and no   *)
(* control byte other than tab, LF and CR; a value with another control    *)
(* byte is JSON-escaped in double quotes, so that no such byte is emitted  *)
(* raw.                                                                    *)

C2_OtherControl(s) == \E i \in 1..Len(s) : IsControl(s[i]) /\ s[i] \notin {9, 10, 13}

\* C2 as stated.  The mask is a union over the bytes: ESC next to a tab gives
\* Control and ExtendedSpace, the mask of a tab alone.
C2_NoRawControl ==
    \A i \in StringElems :
        LET s == DecodedOf(els[i])
            out == Span(els[i])
        IN  /\ (Len(s) > 0 /\ out = Quoted(96, s)) => ~Contains(s, 96) /\ ~C2_OtherControl(s)
            /\ C2_OtherControl(s) => out = Escaped(s)
            /\ ~C2_OtherControl(out)

---------------------------------------------------------------------------
(* C3: a value with a double quote, no control byte and no backslash is    *)
(* single-quoted; if it also has a single quote it is backtick-quoted, or, *)
(* with a backtick too, JSON-escaped in double quotes.                     *)

C3_QuoteUpgrade ==
    \A i \in StringElems :
        LET s == DecodedOf(els[i])
            out == Span(els[i])
        IN  (/\ Contains(s, 34)
             /\ ~Contains(s, 92)
             /\ \A j \in 1..Len(s) : ~IsControl(s[j]))
            => IF ~Contains(s, 39) THEN out = Quoted(39, s)
               ELSE IF ~Contains(s, 96) THEN out = Quoted(96, s)
               ELSE out = Escaped(s)

C3_Witness ==
    \E i \in StringElems :
        LET s == DecodedOf(els[i])
        IN  /\ Contains(s, 34) /\ Contains(s, 39) /\ Contains(s, 96)
            /\ ~Contains(s, 92)
            /\ \A j \in 1..Len(s) : ~IsControl(s[j])
            /\ Span(els[i]) = Escaped(s)
            /\ Span(els[i]) # Quoted(34, s)
            /\ pc = "done"

---------------------------------------------------------------------------
(* C4: the rendering is a function of the mask and the first byte: the     *)
(* first of bare, double-quoted, single-quoted, backtick-quoted and        *)
(* escaped whose condition the mask meets.                                 *)

C4_Admits(kind, mask, first) ==
    CASE kind = "bare"     -> mask = {} /\ first \notin {91, 123}
      [] kind = "double"   -> {"DoubleQuote", "Control", "Backslash"} \cap mask = {}
      [] kind = "single"   -> {"SingleQuote", "Control", "Backslash"} \cap mask = {}
      [] kind = "backtick" -> /\ "Backtick" \notin mask
                              /\ "Control" \in mask => "ExtendedSpace" \in mask
      [] OTHER             -> TRUE

C4_Order == <<"bare", "double", "single", "backtick", "escaped">>

C4_First(mask, first) ==
    C4_Order[CHOOSE k \in 1..5 :
                /\ C4_Admits(C4_Order[k], mask, first)
                /\ \A j \in 1..(k - 1) : ~C4_Admits(C4_Order[j], mask, first)]

C4_Render(kind, s) ==
    CASE kind = "bare"     -> s
      [] kind = "double"   -> Quoted(34, s)
      [] kind = "single"   -> Quoted(39, s)
      [] kind = "backtick" -> Quoted(96, s)
      [] OTHER             -> Escaped(s)

C4_SelectionByPriority ==
    \A i \in StringElems :
        LET s == DecodedOf(els[i])
        IN  Len(s) > 0 => Span(els[i]) = C4_Render(C4_First(MaskOf(s), s[1]), s)

\* the string with a byte of every category is rendered escaped
C4_Witness ==
    \E i \in StringElems :
        LET s == DecodedOf(els[i])
        IN  /\ MaskOf(s) = {"Control", "ExtendedSpace", "DoubleQuote", "SingleQuote",
                            "Backslash", "Backtick", "Space", "EqualSign"}
            /\ s[1] = 123
            /\ Span(els[i]) = Escaped(s)
            /\ pc = "done"

---------------------------------------------------------------------------
(* C5: a non-empty string message that starts with a double quote or has   *)
(* an equal sign is emitted JSON-escaped in double quotes; any other is    *)
(* emitted unquoted.                                                       *)

C5_MustQuote(s) == StartsWith(s, 34) \/ Contains(s, 61)

\* C5 as stated: the unquoted message is the decoded bytes.  format_message
\* trims the span it wrote, so trailing whitespace of the message is lost.
C5_Original ==
    \A i \in MessageElems :
        LET s == DecodedOf(els[i])
        IN  Span(els[i]) = IF C5_MustQuote(s) THEN Escaped(s) ELSE s

\* C5 amended: ... any other message is emitted unquoted, as its decoded bytes
\* up to the last byte that is not ASCII whitespace (all of them when the
\* message has no such byte).
C5_QuotedOrTrimmedBare ==
    \A i \in MessageElems :
        LET s == DecodedOf(els[i])
        IN  Span(els[i]) = IF C5_MustQuote(s) THEN Escaped(s)
                           ELSE IF StripTrailing(s) = <<>> THEN s
                           ELSE StripTrailing(s)

C5_Witness ==
    \E i \in MessageElems :
        LET s == DecodedOf(els[i])
        IN  /\ ~C5_MustQuote(s)
            /\ Contains(s, 34) /\ Contains(s, 92)
            /\ IsAsciiWhitespace(Last(s))
            /\ Span(els[i]) = StripTrailing(s)
            /\ Span(els[i]) # s
            /\ pc = "done"

---------------------------------------------------------------------------
(* C6: the span written for a message or a string value by the             *)
(* format-then-trim operation never ends in ASCII whitespace, and the      *)
(* bytes before the span stay as they were.                                *)

\* C6 as stated.  A span of whitespace only is left untrimmed.
C6_NoTrailingWhitespace ==
    \A i \in 1..Len(els) :
        els[i].trim =>
            /\ els[i].to > els[i].from => ~IsAsciiWhitespace(buf[els[i].to])
            /\ els[i].from >= Len(base)
            /\ SubSeq(buf, 1, Len(base)) = base

---------------------------------------------------------------------------
(* C7: a rendered field whose value is the empty string has the value      *)
(* "" (two double quotes), whatever unescape_fields and flatten are.       *)

EmptyStringElems ==
    {i \in 1..Len(els) :
        /\ els[i].el = "String"
        /\ ValueAt(els[i].scope).t = "str"
        /\ StrIsEmpty(AsStr(ValueAt(els[i].scope)))}

\* C7 as stated.  With unescape_fields off the value is its raw source, and the
\* source of a raw (not JSON) empty string is empty.
C7_Original == \A i \in EmptyStringElems : Span(els[i]) = <<34, 34>>

\* C7 amended: the value is rendered as "" for all four combinations when the
\* string is JSON-encoded, and for a raw-encoded empty string when
\* field-unescaping is on; with field-unescaping off a raw-encoded empty
\* string is rendered as its source, which is no bytes at all.
C7_EmptyString ==
    \A i \in EmptyStringElems :
        Span(els[i]) = IF ValueAt(els[i].scope).enc = "raw" /\ ~cfg.unescape_fields
                       THEN <<>> ELSE <<34, 34>>

\* an empty string below two flattened objects
C7_Witness ==
    \E i \in EmptyStringElems :
        /\ cfg.flatten /\ cfg.unescape_fields
        /\ Len(els[i].scope) = 3
        /\ Span(els[i]) = <<34, 34>>
        /\ pc = "done"

---------------------------------------------------------------------------
(* C8: a field whose value is a tree of objects with scalar leaves is      *)
(* rendered, with flatten, as one dotted-key=value per leaf and no braces, *)
(* and without flatten in nested-brace form.                               *)

RECURSIVE IsObjectTree(_)
IsObjectTree(v) ==
    /\ v.t = "obj"
    /\ \A i \in 1..Len(v.items) :
          v.items[i][2].t \notin {"obj", "arr"} \/ IsObjectTree(v.items[i][2])

ScalarText(v) == FormatScalar(<<>>, v).buf

\* the leaves in document order, each as <keys joined by '.'>=<value>
RECURSIVE FlatTokens(_, _)
FlatTokens(keys, fields) ==
    Concat([i \in 1..Len(fields) |->
        LET path == Append(keys, KeyPrettify(fields[i][1]))
            v == fields[i][2]
        IN  IF v.t = "obj" THEN FlatTokens(path, v.items)
            ELSE << JoinWith(path, <<46>>) \o <<61>> \o ScalarText(v) >>])

\* key={ member member } for an object, key=value for a leaf
RECURSIVE NestedToken(_)
NestedToken(field) ==
    LET v == field[2]
    IN  KeyPrettify(field[1]) \o <<61>> \o
        (IF v.t # "obj" THEN ScalarText(v)
         ELSE IF Len(v.items) = 0 THEN <<123, 125>>
         ELSE <<123, 32>>
              \o JoinWith([i \in 1..Len(v.items) |-> NestedToken(v.items[i])], <<32>>)
              \o <<32, 125>>)

C8_Case ==
    /\ pc = "done"
    /\ cfg.unescape_fields
    /\ ~cfg.hide_empty_fields
    /\ cfg.fields = NoFilterSet
    /\ Len(rec.message) = 0 /\ Len(rec.ts) = 0 /\ Len(rec.logger) = 0
    /\ rec.level = "None" /\ Len(rec.caller) = 0
    /\ ~cfg.always_show_time /\ ~cfg.always_show_level
    /\ \A i \in 1..Len(rec.fields) : IsObjectTree(rec.fields[i][2])

C8_Expected ==
    IF cfg.flatten THEN JoinWith(FlatTokens(<<>>, rec.fields), <<32>>)
    ELSE JoinWith([i \in 1..Len(rec.fields) |-> NestedToken(rec.fields[i])], <<32>>)

\* C8 as stated.  KeyPrefix::push takes an empty buffer for "no prefix yet":
\* an empty key at the head of the path leaves neither a byte nor a dot.
C8_FlattenAndNested == C8_Case => buf = C8_Expected

RECURSIVE NoEmptyKey(_)
NoEmptyKey(fields) ==
    \A i \in 1..Len(fields) :
        /\ Len(fields[i][1]) > 0
        /\ fields[i][2].t = "obj" => NoEmptyKey(fields[i][2].items)

\* the same, for trees without an empty key
FlattenNonEmptyKeys == (C8_Case /\ NoEmptyKey(rec.fields)) => buf = C8_Expected

---------------------------------------------------------------------------
(* C9: push returns the number of bytes it appended, and when a field      *)
(* returns, at any depth, the key prefix and the flatten flag are what     *)
(* they were when the field was entered.                                   *)

\* the step ends a field of the loop at depth d
C9_FieldReturns(d) ==
    /\ d = Len(stack')
    /\ d >= 1
    /\ d \in {Len(stack), Len(stack) - 1}
    /\ stack'[d].kind \in {"rec", "msg", "obj"}
    /\ stack[d].kind = stack'[d].kind
    /\ stack'[d].i = stack[d].i + 1

\* the step enters an object by a push onto the key prefix
C9_Pushes ==
    /\ Len(stack') = Len(stack) + 1
    /\ stack'[Len(stack')].ffv.t = "Flattened"

C9_Step ==
    /\ \A d \in 1..Len(stack) :
          C9_FieldReturns(d) =>
              LET entry == IF d = Len(stack) THEN fs ELSE stack[d + 1].entry
              IN  /\ fs'.key_prefix = entry.key_prefix
                  /\ fs'.flatten = entry.flatten
    /\ C9_Pushes =>
          /\ Len(fs'.key_prefix) = Len(fs.key_prefix) + stack'[Len(stack')].ffv.n
          /\ SubSeq(fs'.key_prefix, 1, Len(fs.key_prefix)) = fs.key_prefix
    /\ Len(stack') <= 1 => fs'.key_prefix = <<>>

C9_StackDiscipline == [][C9_Step]_vars

\* back at the record's loop after a field with a dropped member two objects
\* down, under flatten
C9_Witness ==
    /\ Len(stack) = 1
    /\ Top.kind = "rec"
    /\ Top.i = 2
    /\ cfg.flatten /\ cfg.unescape_fields
    /\ \E p \in drops : Len(p) = 3 /\ p[1] = 1
    /\ rec.fields[1][1] = KE
    /\ fs.key_prefix = <<>>
    /\ fs.flatten

---------------------------------------------------------------------------
(* C10: a field excluded at a filter leaf emits nothing, and a scope       *)
(* emits the hidden-fields indicator once if one of its own fields was     *)
(* dropped and not at all otherwise.                                       *)

EllipsisAt(p) == {i \in 1..Len(els) : els[i].el = "Ellipsis" /\ els[i].scope = p}

\* the scopes that dropped a field or emitted an indicator; <<0>> is the
\* message rendered as the field "msg", which is not a scope of fields
C10_Scopes ==
    ({Front(d) : d \in drops} \cup {els[i].scope : i \in 1..Len(els)}) \ {<<0>>}

C10_Open(p) == \E k \in 1..Len(stack) : stack[k].path = p

C10_OncePerScope ==
    \A p \in C10_Scopes :
        /\ Cardinality(EllipsisAt(p)) =
              IF ~C10_Open(p) /\ \E d \in drops : Front(d) = p THEN 1 ELSE 0
        /\ \A i \in EllipsisAt(p) : Span(els[i]) = HiddenFieldsIndicator

C10_DropEmitsNothing == drops' # drops => buf' = buf /\ els' = els

C10_HiddenFields == []C10_OncePerScope /\ [][C10_DropEmitsNothing]_vars

\* two fields dropped in one object, none in the record: the object has one
\* indicator and the record has none
C10_Witness ==
    /\ pc = "done"
    /\ \E p \in C10_Scopes :
          /\ Len(p) = 1
          /\ Cardinality({d \in drops : Front(d) = p}) = 2
          /\ Cardinality(EllipsisAt(p)) = 1
    /\ {d \in drops : Front(d) = <<>>} = {}
    /\ EllipsisAt(<<>>) = {}

---------------------------------------------------------------------------
(* C11: a field is dropped exactly when its resolved setting is Exclude    *)
(* and its filter node is a leaf.  The setting is the last explicit one    *)
(* on the chain of nodes that the keys on the way to the field match, the  *)
(* keys as they are in the record; a field without a node is a leaf.       *)

\* the key of the field at path q
C11_KeyAt(q) ==
    IF q = <<0, 1>> THEN <<109, 115, 103>>
    ELSE IF Len(q) = 1 THEN rec.fields[q[1]][1]
    ELSE ValueAt(Front(q)).items[Last(q)][1]

\* the keys on the way from the record to the field at path p
C11_Keys(p) ==
    LET off == IF p[1] = 0 THEN 1 ELSE 0
    IN  [j \in 1..(Len(p) - off) |-> C11_KeyAt(SubSeq(p, 1, j + off))]

\* an array on the way to the field: below it no filter is in effect
C11_UnderArray(p) ==
    \E j \in 1..(Len(p) - 1) :
        /\ ~(p[1] = 0 /\ j = 1)
        /\ ValueAt(SubSeq(p, 1, j)).t = "arr"

\* the node the first j keys lead to, if there is one
RECURSIVE C11_Node(_, _)
C11_Node(keys, j) ==
    IF j = 0 THEN <<cfg.fields>>
    ELSE LET prev == C11_Node(keys, j - 1)
         IN  IF prev = <<>> THEN <<>>
             ELSE IF keys[j] \in DOMAIN prev[1].children
                  THEN <<prev[1].children[keys[j]]>>
                  ELSE <<>>

C11_Setting(p) ==
    LET keys == C11_Keys(p)
        explicit == {j \in 0..Len(keys) :
                        /\ C11_Node(keys, j) # <<>>
                        /\ C11_Node(keys, j)[1].setting # "Unspecified"}
    IN  IF C11_UnderArray(p) \/ explicit = {} THEN "Unspecified"
        ELSE C11_Node(keys, CHOOSE j \in explicit : \A k \in explicit : k <= j)[1].setting

C11_Leaf(p) ==
    LET keys == C11_Keys(p)
        node == C11_Node(keys, Len(keys))
    IN  C11_UnderArray(p) \/ node = <<>> \/ DOMAIN node[1].children = {}

C11_ShouldDrop(p) == C11_Setting(p) = "Exclude" /\ C11_Leaf(p)

C11_Step ==
    IF InScope /\ ~Skipped
    THEN IF C11_ShouldDrop(CurPath)
         THEN /\ CurPath \notin drops
              /\ drops' = drops \cup {CurPath}
              /\ buf' = buf
              /\ Len(stack') = Len(stack)
         ELSE /\ drops' = drops
              /\ Len(stack') > Len(stack) \/ els' # els \/ pc' = "panic"
    ELSE drops' = drops

C11_DropIffExcludedLeaf == [][C11_Step]_vars

\* an excluded object rendered as the container of a member with an explicit
\* Include, next to a member without a node, which is dropped
C11_Witness ==
    /\ pc = "done"
    /\ \E d \in drops : \E i \in 1..Len(els) :
          /\ Len(d) = 2
          /\ els[i].el = "Number"
          /\ Len(els[i].scope) = 2
          /\ Front(els[i].scope) = Front(d)
          /\ C11_Setting(Front(d)) = "Exclude"
          /\ C11_Node(C11_Keys(els[i].scope), 2) # <<>>
          /\ C11_Node(C11_Keys(els[i].scope), 2)[1].setting = "Include"
          /\ C11_Node(C11_Keys(d), 2) = <<>>
          /\ C11_KeyAt(els[i].scope) = KAB

---------------------------------------------------------------------------
(* C12: the elements of a record are emitted in the order time, level,     *)
(* logger, message, fields in record order (a repeated key is rendered     *)
(* each time), hidden-fields indicator, caller; an absent element is left  *)
(* out or replaced by its placeholder.                                     *)

\* the place of an element in the fixed order; a message that is not a string
\* is rendered as the field "msg", in the place of the message
C12_Rank(e) ==
    CASE e.el = "Time"    -> 1
      [] e.el = "Level"   -> 2
      [] e.el = "Logger"  -> 3
      [] e.el = "Message" -> 4
      [] e.el = "Caller"  -> 7
      [] e.el = "Ellipsis" /\ e.scope = <<>> -> 6
      [] OTHER -> IF e.scope # <<>> /\ e.scope[1] = 0 THEN 4 ELSE 5

\* the elements that stand for a value of the record
C12_IsValue(e) == e.el \in {"String", "Number", "Boolean", "Null"}

\* path p comes before path q in the record
RECURSIVE C12_Before(_, _)
C12_Before(p, q) ==
    IF Len(q) = 0 THEN FALSE
    ELSE IF Len(p) = 0 THEN TRUE
    ELSE IF Head(p) # Head(q) THEN Head(p) < Head(q)
    ELSE C12_Before(Tail(p), Tail(q))

C12_Count(el) == Cardinality({i \in 1..Len(els) : els[i].el = el /\ els[i].scope = <<>>})

C12_Present(b) == IF b THEN 1 ELSE 0

\* field i of the record is neither skipped as empty nor dropped by the filter
C12_FieldShown(i) ==
    /\ ~(cfg.hide_empty_fields /\ IsEmpty(rec.fields[i][2]))
    /\ ~C11_ShouldDrop(<<i>>)

C12_EmissionOrder ==
    /\ \A i, j \in 1..Len(els) :
          i < j =>
              /\ C12_Rank(els[i]) <= C12_Rank(els[j])
              /\ els[i].to <= els[j].from
              /\ (C12_IsValue(els[i]) /\ C12_IsValue(els[j]))
                     => C12_Before(els[i].scope, els[j].scope)
    /\ pc = "done" =>
          /\ C12_Count("Time") = C12_Present(Len(rec.ts) > 0 \/ cfg.always_show_time)
          /\ C12_Count("Level") =
                C12_Present(LevelText(rec.level) # <<>> \/ cfg.always_show_level)
          /\ C12_Count("Logger") = C12_Present(Len(rec.logger) > 0)
          /\ C12_Count("Message") =
                C12_Present(IF Len(rec.message) = 0 THEN FALSE
                            ELSE /\ rec.message[1].t = "str"
                                 /\ ~StrIsEmpty(AsStr(rec.message[1])))
          /\ C12_Count("Caller") = C12_Present(Len(rec.caller) > 0)
          /\ \A i \in 1..Len(rec.fields) :
                (rec.fields[i][2].t \notin {"obj", "arr"} \/ ~cfg.unescape_fields) =>
                    Cardinality({k \in 1..Len(els) :
                                    C12_IsValue(els[k]) /\ els[k].scope = <<i>>})
                        = C12_Present(C12_FieldShown(i))

\* every element of the header, a field and the caller in one record
C12_Witness ==
    /\ pc = "done"
    /\ Len(els) = 7
    /\ [i \in 1..7 |-> els[i].el]
          = <<"Time", "Level", "Logger", "Message", "Key", "Number", "Caller">>

\* a key that occurs twice, rendered twice
C12_WitnessRepeatedKey ==
    /\ pc = "done"
    /\ Len(rec.fields) = 2
    /\ rec.fields[1][1] = rec.fields[2][1]
    /\ \E i, j \in 1..Len(els) : els[i].scope = <<1>> /\ els[j].scope = <<2>>

---------------------------------------------------------------------------
(* C13: the first element a record emits has no separator before it and    *)
(* every later one has exactly one.                                        *)

\* the elements that take a separator: time, level, logger, message, every
\* key=value pair, caller
C13_Separated == {i \in 1..Len(els) :
                     els[i].el \in {"Time", "Level", "Logger", "Message", "Key", "Caller"}}

\* The separator bytes written for element i.  The span of a key and of the
\* caller starts where its separator starts (begin() and the caller write it
\* inside the element; no key of a record starts with a space); the other
\* elements start after it, where the element before them ended.
C13_SeparatorsBefore(i) ==
    IF els[i].el \in {"Key", "Caller"}
    THEN IF Span(els[i]) # <<>> /\ Span(els[i])[1] = 32 THEN 1 ELSE 0
    ELSE els[i].from - (IF i = 1 THEN Len(base) ELSE els[i - 1].to)

C13_IsFirst(i) == \A j \in C13_Separated : j >= i

\* C13 as stated.  The caller pushes its space whether or not anything was
\* emitted before it.
C13_Separators ==
    \A i \in C13_Separated :
        C13_SeparatorsBefore(i) = IF C13_IsFirst(i) THEN 0 ELSE 1

\* the same for every element but the caller
SeparatorsBeforeCaller ==
    \A i \in C13_Separated :
        els[i].el # "Caller" =>
            C13_SeparatorsBefore(i) = IF C13_IsFirst(i) THEN 0 ELSE 1

\* the caller after another element has its one separator
SeparatorOfLaterCaller ==
    \A i \in C13_Separated :
        (els[i].el = "Caller" /\ ~C13_IsFirst(i)) => C13_SeparatorsBefore(i) = 1

---------------------------------------------------------------------------
(* C14: format_record only appends.  The buffer's content at the call      *)
(* stays in front of the new bytes, and the truncate, rotate and trim of   *)
(* a value leave every byte written before the value where it was.         *)

IsPrefix(p, s) == Len(p) <= Len(s) /\ SubSeq(s, 1, Len(p)) = p

\* the buffer when the value of element e started to be written
C14_Before(e) == SubSeq(buf, 1, e.from)

C14_BaseKept ==
    /\ IsPrefix(base, buf)
    /\ \A i \in StringElems :
          LET b == C14_Before(els[i])
              str == AsStr(Auto(ValueAt(els[i].scope)))
          IN  /\ IsPrefix(b, ValueFormatAuto(b, str).buf)
              /\ IsPrefix(b, WithAutoTrim(b, ValueFormatAuto(b, str)).buf)
    /\ \A i \in MessageElems :
          LET b == C14_Before(els[i])
              str == AsStr(rec.message[1])
          IN  /\ IsPrefix(b, MessageFormatAuto(b, str).buf)
              /\ IsPrefix(b, WithAutoTrim(b, MessageFormatAuto(b, str)).buf)
              /\ IsPrefix(base, b)

C14_StepAppends == IsPrefix(buf, buf')

C14_AppendOnly == []C14_BaseKept /\ [][C14_StepAppends]_vars

\* a message cut at its end, written after a buffer that ends in a space
C14_Witness ==
    /\ pc = "done"
    /\ base = <<120, 32>>
    /\ \E i \in MessageElems :
          /\ els[i].from = Len(base)
          /\ Len(Span(els[i])) < Len(DecodedOf(els[i]))
          /\ Len(Span(els[i])) > 0
          /\ buf = base \o Span(els[i])

---------------------------------------------------------------------------
(* C15: a string that does not decode, or an object or array that does not *)
(* parse, ends the call: format_record does not complete, nothing more is  *)
(* written, and what was written stays in the buffer.                      *)

C15_BadString(v) == Auto(v).t = "str" /\ ~Decode(AsStr(Auto(v))).ok

C15_BadValue(v) == IF v.t \in {"obj", "arr"} THEN ~Parses(v) ELSE C15_BadString(v)

\* the value the next step renders does not decode or does not parse
C15_Failing ==
    IF pc = "message" /\ stack = <<>>
    THEN IF Len(rec.message) = 0 THEN FALSE
         ELSE /\ rec.message[1].t = "str"
              /\ ~Decode(AsStr(rec.message[1])).ok
    ELSE IF InScope
    THEN /\ ~Skipped
         /\ ~C11_ShouldDrop(CurPath)
         /\ cfg.unescape_fields
         /\ C15_BadValue(CurVal)
    ELSE IF InArray THEN C15_BadValue(CurElem)
    ELSE FALSE

C15_Step ==
    /\ pc # "panic"
    /\ (pc' = "panic") <=> C15_Failing
    /\ pc' = "panic" => IsPrefix(buf, buf') /\ IsPrefix(base, buf')

C15_FailureIsFatal == [][C15_Step]_vars

\* the call failed at the second element of an array, with the field's key, the
\* bracket and the first element in the buffer
C15_Witness ==
    /\ pc = "panic"
    /\ Len(stack) = 2
    /\ Top.kind = "arr"
    /\ Top.i = 2
    /\ C15_BadString(CurElem)
    /\ IsPrefix(base \o <<97, 45, 98, 61, 91, 52, 50, 32, 97>>, buf)

---------------------------------------------------------------------------
(* C16: with field-unescaping off a field of the record that is neither    *)
(* skipped as empty nor excluded is emitted as its key, the separator and  *)
(* the source text of its value, whatever flatten is.                      *)

\* the fields of the record that are shown, in order
RECURSIVE C16_Shown(_)
C16_Shown(i) ==
    IF i > Len(rec.fields) THEN <<>>
    ELSE (IF C12_FieldShown(i) THEN <<i>> ELSE <<>>) \o C16_Shown(i + 1)

C16_Token(i) ==
    KeyPrettify(rec.fields[i][1]) \o FieldKeyValueSeparator \o RawStr(rec.fields[i][2])

C16_Expected ==
    LET shown == C16_Shown(1)
    IN  JoinWith([k \in 1..Len(shown) |-> C16_Token(shown[k])], <<32>>)
            \o (IF \E i \in 1..Len(rec.fields) :
                       /\ ~(cfg.hide_empty_fields /\ IsEmpty(rec.fields[i][2]))
                       /\ C11_ShouldDrop(<<i>>)
                THEN HiddenFieldsIndicator ELSE <<>>)

C16_Case ==
    /\ pc = "done"
    /\ ~cfg.unescape_fields
    /\ Len(rec.message) = 0 /\ Len(rec.ts) = 0 /\ Len(rec.logger) = 0
    /\ rec.level = "None" /\ Len(rec.caller) = 0
    /\ ~cfg.always_show_time /\ ~cfg.always_show_level

C16_RawFields == C16_Case => buf = base \o C16_Expected

\* flatten configured, and an object with a member emitted as its source text
C16_Witness ==
    /\ C16_Case
    /\ cfg.flatten
    /\ Len(rec.fields) = 1
    /\ rec.fields[1][1] = KAB
    /\ rec.fields[1][2].t = "obj"
    /\ Len(rec.fields[1][2].items) = 2
    /\ IsPrefix(base \o <<97, 45, 98, 61, 123, 34>>, buf)

---------------------------------------------------------------------------
(* C17: how a string that is an element of an array is rendered, when it   *)
(* is empty and when it has an empty mask and starts with '[' or '{'.      *)

\* the rendered strings that are elements of an array
ArrayStringElems ==
    {i \in StringElems :
        /\ Len(els[i].scope) >= 2
        /\ ~(els[i].scope[1] = 0 /\ Len(els[i].scope) = 2)
        /\ ValueAt(Front(els[i].scope)).t = "arr"}

C17_Empty(i) == StrIsEmpty(AsStr(Auto(ValueAt(els[i].scope))))

C17_Bracket(i) ==
    LET s == DecodedOf(els[i])
    IN  /\ ~C17_Empty(i)
        /\ MaskOf(s) = {}
        /\ s[1] \in {91, 123}

\* C17 as stated: an element gets neither the "" token nor the quotes forced
\* by a leading bracket.  format_value renders an element by the same
\* ValueFormatAuto::format as a field value.
C17_Original ==
    \A i \in ArrayStringElems :
        /\ C17_Empty(i) => Span(els[i]) = <<>>
        /\ C17_Bracket(i) => Span(els[i]) = DecodedOf(els[i])

\* C17 amended: a string element of an array is rendered as a top-level
\* scalar field value is: the empty string as "", and a string with an empty
\* mask that starts with '[' or '{' in double quotes.
C17_ElementsAsFields ==
    \A i \in ArrayStringElems :
        LET s == DecodedOf(els[i])
        IN  Span(els[i]) = IF C17_Empty(i) THEN <<34, 34>>
                           ELSE C4_Render(C4_First(MaskOf(s), s[1]), s)

\* the array ["{a" ""] rendered as ["{a" ""]
C17_Witness ==
    /\ pc = "done"
    /\ \E i, j \in ArrayStringElems :
          /\ C17_Bracket(i) /\ Span(els[i]) = <<34, 123, 97, 34>>
          /\ C17_Empty(j) /\ Span(els[j]) = <<34, 34>>
          /\ Front(els[i].scope) = Front(els[j].scope)

---------------------------------------------------------------------------
(* C18: while an array is rendered flatten mode is off and no filter is in *)
(* effect: an object that is an element is rendered in braces with all its *)
(* members, their keys without a prefix, and the key prefix is unchanged.  *)

IsSuffix(p, s) == Len(p) <= Len(s) /\ SubSeq(s, Len(s) - Len(p) + 1, Len(s)) = p

\* a value in brace and bracket form, every member and every element in it
RECURSIVE C18_Text(_)
C18_Text(v) ==
    CASE v.t = "obj" ->
            IF Len(v.items) = 0 THEN <<123, 125>>
            ELSE <<123, 32>>
                 \o JoinWith([i \in 1..Len(v.items) |->
                        KeyPrettify(v.items[i][1]) \o <<61>> \o C18_Text(v.items[i][2])],
                        <<32>>)
                 \o <<32, 125>>
      [] v.t = "arr" ->
            <<91>> \o JoinWith([i \in 1..Len(v.items) |-> C18_Text(v.items[i])], <<32>>)
                   \o <<93>>
      [] OTHER -> ScalarText(v)

C18_Arrays == {k \in 1..Len(stack) : stack[k].kind = "arr"}

C18_InArray ==
    \A k \in C18_Arrays :
        /\ ~fs.flatten
        /\ fs.key_prefix = stack[k].entry.key_prefix
        /\ \A j \in k..Len(stack) :
              stack[j].filter = <<>> /\ stack[j].setting = "Unspecified"
        /\ \A d \in drops : ~IsPrefix(stack[k].path, d)

\* the array whose loop is over stands in the buffer in its full form
C18_ArrayEnds == AtEnd("arr") => IsSuffix(C18_Text(ValueAt(Top.path)), buf')

---------------------------------------------------------------------------
(* C19: when anything rendered through the field path at record level is   *)
(* dropped by filter exclusion, a non-string message under the key "msg"   *)
(* included, the output of the record contains the hidden-fields indicator.*)

\* the paths of what format_record itself hands to format_field: the fields
\* of the record, and the message as the field "msg"
C19_MessageDropped == <<0, 1>> \in drops

C19_FieldDropped == \E d \in drops : Len(d) = 1

C19_HasIndicator ==
    \E i \in EllipsisAt(<<>>) :
        /\ Span(els[i]) = HiddenFieldsIndicator
        /\ els[i].to <= Len(buf)

C19_IndicatorWhenDropped ==
    (pc = "done" /\ (C19_MessageDropped \/ C19_FieldDropped)) => C19_HasIndicator

\* the same for the fields of the record alone
IndicatorWhenFieldDropped == (pc = "done" /\ C19_FieldDropped) => C19_HasIndicator

\* the message was dropped and no field was: no indicator
MessageDroppedAlone ==
    /\ pc = "done"
    /\ C19_MessageDropped
    /\ ~C19_FieldDropped
    /\ EllipsisAt(<<>>) = {}

===========================================================================
